---- MODULE Spec2Model ----
(***************************************************************************)
(* A model of c-timer-lib (src/timer.c): named measurement intervals bound *)
(* to a system clock, the timestamp subtraction diff_timespec, and the     *)
(* unit conversion of elapsed_interval.                                    *)
(*                                                                         *)
(* Timestamps are struct timespec values [tv_sec, tv_nsec].  A C double is *)
(* modelled as an exact decimal (see Dec below): IEEE rounding is not part *)
(* of the model.                                                           *)
(***************************************************************************)
EXTENDS Integers, Sequences, FiniteSets, TLC

(***************************************************************************)
(* Bounds of the model.                                                    *)
(***************************************************************************)
\* Largest tv_sec a clock sample or an uninitialised field takes.
MaxSec == 1
\* The last tick of the system clocks.
MaxTick == 2

(***************************************************************************)
(* Program constants.                                                      *)
(***************************************************************************)
\* The literal 1000000000 of diff_timespec: nanoseconds per second.
NSEC_PER_SEC == 1000000000
\* Verbosity of the build: ERROR prints when TIMERVER > 0.
TIMERVER == 1
\* timer.h: the unit and the clock of a build that defines neither.
TIMERUNIT == 3
TIMERCLOCK == 2

\* Status codes.
OK == 0
NOT_ALLOCATED == -1
CLOCK_FAILED == -2

(***************************************************************************)
(* struct timespec                                                         *)
(***************************************************************************)
Timespec(sec, nsec) == [tv_sec |-> sec, tv_nsec |-> nsec]

\* Representative tv_nsec values of a conforming timestamp, [0, 1e9).
NsecValues == {0, 1, 400000000, 500000000, 999999999}

\* The conforming timestamps of the model.
Timestamps == {Timespec(sec, nsec) : sec \in 0..MaxSec, nsec \in NsecValues}

\* C's integer division truncates toward zero.
CDiv(a, b) ==
    IF (a >= 0) = (b > 0) THEN (IF a >= 0 THEN a ELSE -a) \div (IF b > 0 THEN b ELSE -b)
    ELSE -((IF a >= 0 THEN a ELSE -a) \div (IF b > 0 THEN b ELSE -b))

\* x + k * n, by n additions of k (|n| additions of -k when n < 0): the
\* product k * n alone may leave the range of the checker's integers.
RECURSIVE AddTimes(_, _, _)
AddTimes(x, k, n) ==
    IF n = 0 THEN x
    ELSE IF n > 0 THEN AddTimes(x + k, k, n - 1)
    ELSE AddTimes(x - k, k, n + 1)

\* diff_timespec without its borrow: the fields subtracted one by one.
diff_timespec_nocarry(end, begin) ==
    Timespec(end.tv_sec - begin.tv_sec, end.tv_nsec - begin.tv_nsec)

\* timer.c: diff_timespec(end, begin).
diff_timespec(end, begin) ==
    LET result0 == begin
        nsec1 == CDiv(begin.tv_nsec - end.tv_nsec, NSEC_PER_SEC) + 1
        result1 == IF end.tv_nsec < begin.tv_nsec
                   THEN Timespec(result0.tv_sec + nsec1,
                                 AddTimes(result0.tv_nsec, NSEC_PER_SEC, -nsec1))
                   ELSE result0
        nsec2 == CDiv(end.tv_nsec - begin.tv_nsec, NSEC_PER_SEC)
        result2 == IF end.tv_nsec - begin.tv_nsec > NSEC_PER_SEC
                   THEN Timespec(result1.tv_sec - nsec2,
                                 AddTimes(result1.tv_nsec, NSEC_PER_SEC, nsec2))
                   ELSE result1
    IN Timespec(end.tv_sec - result2.tv_sec, end.tv_nsec - result2.tv_nsec)

(***************************************************************************)
(* double: an exact decimal g * 10^9 + u + f * 10^-9 with 0 <= u, f < 10^9 *)
(* (the sign is in g).  Every value the conversions produce has at most    *)
(* nine fractional digits, so the arithmetic below is exact.               *)
(***************************************************************************)
Dec(g, u, f) == [g |-> g, u |-> u, f |-> f]

\* (double) n for an integer n.
DecInt(n) == Dec(n \div NSEC_PER_SEC, n % NSEC_PER_SEC, 0)

\* x + y.
DecAdd(x, y) ==
    LET f == x.f + y.f
        u == x.u + y.u + (f \div NSEC_PER_SEC)
    IN Dec(x.g + y.g + (u \div NSEC_PER_SEC), u % NSEC_PER_SEC, f % NSEC_PER_SEC)

\* x * p for p a power of ten up to 10^9: each limb splits at 10^9 / p.
DecMul(x, p) ==
    LET q == NSEC_PER_SEC \div p
    IN Dec(x.g * p + (x.u \div q),
           (x.u % q) * p + (x.f \div q),
           (x.f % q) * p)

\* x / p for p a power of ten up to 10^9 (the digits below 10^-9 are zero
\* for every operand the program divides: an integer tv_nsec).
DecDiv(x, p) ==
    LET q == NSEC_PER_SEC \div p
    IN Dec(x.g \div p,
           (x.g % p) * q + (x.u \div p),
           (x.u % p) * q + (x.f \div p))

\* NANO_TO_MSEC dividing as NANO_TO_MCSEC does.
NANO_TO_MSEC_micro(time) == DecDiv(DecInt(time), 1000)

\* timer.h: the time conversion macros.
NANO_TO_SEC(time) == DecDiv(DecInt(time), 1000000000)
NANO_TO_MSEC(time) == DecDiv(DecInt(time), 1000000)
NANO_TO_MCSEC(time) == DecDiv(DecInt(time), 1000)
SEC_TO_MSEC(time) == DecMul(DecInt(time), 1000)
SEC_TO_MCSEC(time) == DecMul(DecInt(time), 1000000)
SEC_TO_NSEC(time) == DecMul(DecInt(time), 1000000000)

(***************************************************************************)
(* Diagnostics: what one call writes to stderr, as a sequence of messages. *)
(***************************************************************************)
\* ERROR compiled out, as with TIMERVER 0.
ERROR_off(message) == <<>>

\* timer.h: ERROR(message) prints when TIMERVER > 0.
ERROR(message) == IF TIMERVER > 0 THEN <<message>> ELSE <<>>

InvalidUnitMsg == "Invalid UNIT value, using seconds (s)"
InvalidClockMsg == "Invalid CLOCK value, using CLOCK_REALTIME"
ClockReadMsg == "Failed to get start time!"
CreateMsg == "Unable to create interval %s!"

(***************************************************************************)
(* unit_e                                                                  *)
(***************************************************************************)
s == 0
ms == 1
us == 2
ns == 3
\* One past the last unit: the bound of the override's range test.
unit_check == 4
\* The override meaning "use the interval's own unit".
none == -1

\* Values a unit_e argument or field takes: the enumeration and, on either
\* side of it, values out of range.
UnitValues == -2..5

\* print_unit reaching its last line for a unit out of range.
print_unit_null(unit) ==
    IF unit \in 0..3 THEN [str |-> <<"s", "ms", "us", "ns">>[unit + 1], err |-> <<>>]
    ELSE [str |-> "null", err |-> <<>>]

\* timer.c: print_unit(unit): the abbreviation and what is written to stderr.
print_unit(unit) ==
    CASE unit = 0 -> [str |-> "s", err |-> <<>>]
      [] unit = 1 -> [str |-> "ms", err |-> <<>>]
      [] unit = 2 -> [str |-> "us", err |-> <<>>]
      [] unit = 3 -> [str |-> "ns", err |-> <<>>]
      [] OTHER -> [str |-> "s", err |-> ERROR(InvalidUnitMsg)]

\* The override ignored.
SelectedUnit_configured(tmp, ut) == tmp.unit

\* timer.c: the unit elapsed_interval converts in (line 255).
SelectedUnit(tmp, ut) == IF 0 <= ut /\ ut < unit_check THEN ut ELSE tmp.unit

\* timer.c: elapsed_interval(tmp, ut): the returned double and what is
\* written to stderr.
elapsed_interval(tmp, ut) ==
    LET diff == diff_timespec(tmp.stop, tmp.start)
        unit == SelectedUnit(tmp, ut)
    IN CASE unit = ms ->
              [time |-> DecAdd(SEC_TO_MSEC(diff.tv_sec), NANO_TO_MSEC(diff.tv_nsec)),
               err |-> <<>>]
         [] unit = us ->
              [time |-> DecAdd(SEC_TO_MCSEC(diff.tv_sec), NANO_TO_MCSEC(diff.tv_nsec)),
               err |-> <<>>]
         [] unit = ns ->
              [time |-> DecAdd(SEC_TO_NSEC(diff.tv_sec), DecInt(diff.tv_nsec)),
               err |-> <<>>]
         [] unit = s ->
              [time |-> DecAdd(DecInt(diff.tv_sec), NANO_TO_SEC(diff.tv_nsec)),
               err |-> <<>>]
         [] OTHER ->
              [time |-> DecAdd(DecInt(diff.tv_sec), NANO_TO_SEC(diff.tv_nsec)),
               err |-> ERROR(InvalidUnitMsg)]

(***************************************************************************)
(* clock_e and the system clocks                                           *)
(***************************************************************************)
rt == 0
rtc == 1
mono == 2
monoc == 3
monor == 4
monob == 5
cpup == 6
cput == 7

\* Values a clock_e argument or field takes: the enumeration and values out
\* of range.
ClockValues == -1..8

\* timer.c: set_clock(ck): the clockid_t and what is written to stderr.
\* have_boottime: whether the platform's <time.h> defines CLOCK_BOOTTIME.
set_clock(ck, have_boottime) ==
    CASE ck = rtc -> [clock |-> "CLOCK_REALTIME_COARSE", err |-> <<>>]
      [] ck = mono -> [clock |-> "CLOCK_MONOTONIC", err |-> <<>>]
      [] ck = monoc -> [clock |-> "CLOCK_MONOTONIC_COARSE", err |-> <<>>]
      [] ck = monor -> [clock |-> "CLOCK_MONOTONIC_RAW", err |-> <<>>]
      [] ck = cpup -> [clock |-> "CLOCK_PROCESS_CPUTIME_ID", err |-> <<>>]
      [] ck = cput -> [clock |-> "CLOCK_THREAD_CPUTIME_ID", err |-> <<>>]
      [] ck = monob /\ have_boottime -> [clock |-> "CLOCK_BOOTTIME", err |-> <<>>]
      [] ck = rt -> [clock |-> "CLOCK_REALTIME", err |-> <<>>]
      [] OTHER -> [clock |-> "CLOCK_REALTIME", err |-> ERROR(InvalidClockMsg)]

\* timer.c: error_num(status).
error_num(status) ==
    CASE status = OK -> "status is OK"
      [] status = NOT_ALLOCATED -> "variable not allocated!"
      [] status = CLOCK_FAILED -> "clock not available!"
      [] OTHER -> "Unknown status number!"

(***************************************************************************)
(* interval_t and the operations on it                                     *)
(***************************************************************************)
\* The interval_t pointers of the program (test.c: a, b).
Ptrs == {"a", "b"}

\* The system clock ticks in half seconds; tick k is the timestamp TickTime(k).
TickTime(k) == Timespec(k \div 2, (k % 2) * 500000000)
Ticks == 0..MaxTick
ClockSamples == {TickTime(k) : k \in Ticks}

\* What malloc'ed memory that was never written may hold.
Garbage == ClockSamples

\* The arguments create_interval is called with for each pointer: test.c's
\* first interval for a; for b its second, on the settable realtime clock
\* and in milliseconds.
CreateInputs(p) ==
    IF p = "a" THEN { <<"Test 1", mono, s>> } ELSE { <<"Test 2", rt, ms>> }

\* The argument lists print_results and print_results_csv are called with:
\* distinct allocated pointers, in any order (at least one: the functions
\* declare arrays of num elements).
ArgLists(allocated) ==
    {args \in UNION {[1..num -> allocated] : num \in 1..Cardinality(allocated)} :
        \A i, j \in DOMAIN args : args[i] = args[j] => i = j}

\* The unit overrides elapsed_interval is called with.
ElapsedInputs == {none, ns}

\* Clocks that never run backwards: all but the settable realtime clocks.
IsMonotonic(clock) == clock \notin {"CLOCK_REALTIME", "CLOCK_REALTIME_COARSE"}

\* clock_gettime may fail (-1, EINVAL) for a clock the platform lacks;
\* CLOCK_REALTIME is always there.
MayFail(clock) == clock # "CLOCK_REALTIME"

VARIABLES
    have_boottime, \* the build: <time.h> defines CLOCK_BOOTTIME
    ivl,           \* the heap: allocated pointer -> interval_t
    monoNow,       \* the tick the monotonic clocks last showed
    sampled,       \* history: per pointer, the phase (Created, Started,
                   \* Restarted: started again, Stopped: stopped after a
                   \* start) and the clock samples of its last successful
                   \* start and stop
    last,          \* the last call: function, arguments, returned value
    stderr,        \* what the last call wrote to stderr
    stdout,        \* what the last call wrote to stdout
    call,          \* harness: a call of a pure function
    result         \* harness: <<>> before the call, <<value>> after

vars == <<have_boottime, ivl, monoNow, sampled, last, stderr, stdout, call, result>>

Allocated == DOMAIN ivl

\* In the history: no successful clock read yet.
NotSampled == Timespec(-1, 0)

NoCall == [fn |-> "none"]

Init ==
    /\ have_boottime = TRUE
    /\ ivl = <<>>
    /\ monoNow = 0
    /\ sampled = <<>>
    /\ last = [op |-> "none"]
    /\ stderr = <<>>
    /\ stdout = <<>>
    /\ call = NoCall
    /\ result = <<>>

\* timer.c: the interval_t create_interval builds: name, clock and unit are
\* assigned, start and stop are whatever malloc returned.
create_interval(name, ck, ut, gstart, gstop) ==
    [name |-> name, clock |-> ck, unit |-> ut, start |-> gstart, stop |-> gstop]

\* create_interval(&p, name, ck, ut): malloc succeeds or returns NULL.
Create(p, name, ck, ut) ==
    /\ p \notin Allocated
    /\ \/ /\ \E gstart \in Garbage, gstop \in Garbage :
                ivl' = ivl @@ (p :> create_interval(name, ck, ut, gstart, gstop))
          /\ sampled' = sampled @@ (p :> [phase |-> "Created",
                                          start |-> NotSampled,
                                          stop |-> NotSampled])
          /\ last' = [op |-> "create_interval", p |-> p, name |-> name,
                      clock |-> ck, unit |-> ut, ret |-> OK]
          /\ stderr' = <<>>
       \/ /\ last' = [op |-> "create_interval", p |-> p, name |-> name,
                      clock |-> ck, unit |-> ut, ret |-> NOT_ALLOCATED]
          /\ stderr' = ERROR(CreateMsg)
          /\ UNCHANGED <<ivl, sampled>>
    /\ stdout' = <<>>
    /\ UNCHANGED <<have_boottime, monoNow, call, result>>

\* timer.c: get_time's return value when clock_gettime returned ret.
get_time_status(ret) == IF ret # 0 THEN ret ELSE OK

\* clock_gettime's argument written even when the read failed.
get_time_field_clobber(old, ret, sample) == sample

\* The field get_time leaves in *time: the sample when clock_gettime
\* succeeded, the old value when it failed.
get_time_field(old, ret, sample) == IF ret = 0 THEN sample ELSE old

\* The ticks clock_gettime(clock) may show now.
Readable(clock) == IF IsMonotonic(clock) THEN monoNow..MaxTick ELSE Ticks

\* get_time writing both fields of the interval.
write_field_both(tmp, field, new) == [tmp EXCEPT !.start = new, !.stop = new]

\* start writing &tmp->stop and stop writing &tmp->start.
write_field_swapped(tmp, field, new) ==
    IF field = "start" THEN [tmp EXCEPT !.stop = new] ELSE [tmp EXCEPT !.start = new]

\* timer.c: the field start / stop hands to get_time: &(tmp->start) in
\* start, &(tmp->stop) in stop.
write_field(tmp, field, new) ==
    IF field = "start" THEN [tmp EXCEPT !.start = new] ELSE [tmp EXCEPT !.stop = new]

\* start(p) / stop(p): get_time(set_clock(p->clock), &p->start / &p->stop).
\* ret is what clock_gettime returns, sample what it wrote (when ret = 0).
Sample(p, field, ret, sample) ==
    LET sc == set_clock(ivl[p].clock, have_boottime)
        old == IF field = "start" THEN ivl[p].start ELSE ivl[p].stop
        new == get_time_field(old, ret, sample)
        h == sampled[p]
    IN /\ ivl' = [ivl EXCEPT ![p] = write_field(@, field, new)]
       /\ sampled' = [sampled EXCEPT ![p] =
                        IF ret # 0 THEN h
                        ELSE IF field = "start"
                        THEN [phase |-> IF h.phase = "Created" THEN "Started" ELSE "Restarted",
                              start |-> sample, stop |-> h.stop]
                        ELSE [phase |-> IF h.phase = "Created" THEN "Created" ELSE "Stopped",
                              start |-> h.start, stop |-> sample]]
       /\ last' = [op |-> field, p |-> p, read |-> ret, ret |-> get_time_status(ret)]
       /\ stderr' = sc.err \o (IF ret # 0 THEN ERROR(ClockReadMsg) ELSE <<>>)
       /\ stdout' = <<>>
       /\ UNCHANGED <<have_boottime, call, result>>

\* The clock read of start(p) / stop(p): it succeeds and shows a tick the
\* clock may show now, or it fails.
Read(p, field) ==
    LET clock == set_clock(ivl[p].clock, have_boottime).clock
    IN /\ p \in Allocated
       /\ \/ \E k \in Readable(clock) :
                /\ Sample(p, field, 0, TickTime(k))
                /\ monoNow' = IF IsMonotonic(clock) THEN k ELSE monoNow
          \/ /\ MayFail(clock)
             /\ Sample(p, field, -1, Timespec(0, 0))
             /\ UNCHANGED monoNow

Start(p) == Read(p, "start")

Stop(p) == Read(p, "stop")

\* elapsed_interval(p, ut).
Elapsed(p, ut) ==
    /\ p \in Allocated
    /\ last' = [op |-> "elapsed_interval", p |-> p, ut |-> ut,
                ret |-> elapsed_interval(ivl[p], ut).time]
    /\ stderr' = elapsed_interval(ivl[p], ut).err
    /\ stdout' = <<>>
    /\ UNCHANGED <<have_boottime, ivl, monoNow, sampled, call, result>>

\* The concatenation of a sequence of sequences.
RECURSIVE Concat(_)
Concat(seqs) == IF seqs = <<>> THEN <<>> ELSE Head(seqs) \o Concat(Tail(seqs))

\* printf's %.3f: the value rounded to three decimals, ties to even.
Fmt3(x) ==
    LET r == x.f % 1000000
        low == Dec(x.g, x.u, x.f - r)
        up == r > 500000 \/ (r = 500000 /\ (x.f \div 1000000) % 2 = 1)
    IN IF up THEN DecAdd(low, Dec(0, 0, 1000000)) ELSE low

\* Tokens of stdout: a piece of text, or a number printed with %.3f.
Text(str) == [text |-> str, num |-> Dec(0, 0, 0)]
Num3(x) == [text |-> "%.3f", num |-> Fmt3(x)]

\* timer.c: the first loop of print_results / print_results_csv writes the
\* diagnostics of elapsed_interval(time, none), in argument order.
values_err(args) ==
    Concat([i \in 1..Len(args) |-> elapsed_interval(ivl[args[i]], none).err])

\* The diagnostics of print_unit(units[i]), in argument order.
units_err(args) ==
    Concat([i \in 1..Len(args) |-> print_unit(ivl[args[i]].unit).err])

\* timer.c: what print_results(num, args...) writes to stdout.
print_results(args) ==
    Concat([i \in 1..Len(args) |->
              << Text(ivl[args[i]].name), Text(": "),
                 Num3(elapsed_interval(ivl[args[i]], none).time), Text(" "),
                 Text(print_unit(ivl[args[i]].unit).str), Text("\n") >>])

\* print_results_csv writing the separator after every entry, the last too.
print_results_csv_trailing(comment, args) ==
    LET num == Len(args)
    IN << Text(comment), Text(" ") >>
       \o Concat([i \in 1..num |->
                    << Text(ivl[args[i]].name), Text(" ("),
                       Text(print_unit(ivl[args[i]].unit).str), Text(")"),
                       Text(", ") >>])
       \o << Text("\n") >>
       \o Concat([i \in 1..num |->
                    << Num3(elapsed_interval(ivl[args[i]], none).time), Text(", ") >>])
       \o << Text("\n") >>

\* timer.c: what print_results_csv(comment, num, args...) writes to stdout.
print_results_csv(comment, args) ==
    LET num == Len(args)
        sep(i) == IF i < num THEN <<Text(", ")>> ELSE <<>>
    IN << Text(comment), Text(" ") >>
       \o Concat([i \in 1..num |->
                    << Text(ivl[args[i]].name), Text(" ("),
                       Text(print_unit(ivl[args[i]].unit).str), Text(")") >> \o sep(i)])
       \o << Text("\n") >>
       \o Concat([i \in 1..num |->
                    << Num3(elapsed_interval(ivl[args[i]], none).time) >> \o sep(i)])
       \o << Text("\n") >>

\* print_results(num, args...).
PrintResults(args) ==
    /\ last' = [op |-> "print_results", args |-> args]
    /\ stdout' = print_results(args)
    /\ stderr' = values_err(args) \o units_err(args)
    /\ UNCHANGED <<have_boottime, ivl, monoNow, sampled, call, result>>

\* print_results_csv(comment, num, args...).
PrintResultsCsv(comment, args) ==
    /\ last' = [op |-> "print_results_csv", args |-> args, comment |-> comment]
    /\ stdout' = print_results_csv(comment, args)
    /\ stderr' = values_err(args) \o units_err(args)
    /\ UNCHANGED <<have_boottime, ivl, monoNow, sampled, call, result>>

Next ==
    \/ \E p \in Ptrs : \E in \in CreateInputs(p) : Create(p, in[1], in[2], in[3])
    \/ \E args \in ArgLists(Allocated) : PrintResults(args)
    \/ \E args \in ArgLists(Allocated) : PrintResultsCsv("#", args)
    \/ \E p \in Ptrs : Start(p)
    \/ \E p \in Ptrs : Stop(p)
    \/ \E p \in Ptrs, ut \in ElapsedInputs : Elapsed(p, ut)

Spec == Init /\ [][Next]_vars

(***************************************************************************)
(* The functions called on their own, their arguments drawn from every     *)
(* value of the enumerations and every pair of conforming timestamps: one  *)
(* call of an internal function per behaviour, or elapsed_interval called  *)
(* with every override on one interval a, created some time ago, whose     *)
(* unit is any value and whose fields hold any two conforming timestamps.  *)
(***************************************************************************)
\* The intervals elapsed_interval is called on.
Intervals ==
    { [name |-> "Test 1", clock |-> mono, unit |-> unit, start |-> start, stop |-> stop] :
        unit \in UnitValues, start \in Timestamps, stop \in Timestamps }

\* The timestamps diff_timespec may be handed when a field was never
\* sampled: tv_nsec is any long, below zero or a second and more.
AnyNsecValues == NsecValues \cup {-1, 1000000000, 1000000001, 1500000000, 2000000000}
AnyTimestamps == {Timespec(sec, nsec) : sec \in 0..MaxSec, nsec \in AnyNsecValues}

\* timer.c: 1000000000 * nsec is a product of two ints, defined up to
\* nsec = 2; the borrow takes nsec = (begin - end) / 1000000000 + 1.
IntProductDefined(end, begin) == begin.tv_nsec - end.tv_nsec < 2 * NSEC_PER_SEC

InvalidTimeunitMsg == "Invalid TIMEUNIT value, using seconds (s)"
InvalidTimerclockMsg == "Invalid TIMERCLOCK value, using CLOCK_REALTIME"

\* timer.h: set_clock() interprets TIMERCLOCK.
timer_h_set_clock ==
    CASE TIMERCLOCK = 0 -> [clock |-> "CLOCK_REALTIME", err |-> <<>>]
      [] TIMERCLOCK = 1 -> [clock |-> "CLOCK_REALTIME_COARSE", err |-> <<>>]
      [] TIMERCLOCK = 2 -> [clock |-> "CLOCK_MONOTONIC", err |-> <<>>]
      [] TIMERCLOCK = 3 -> [clock |-> "CLOCK_MONOTONIC_COARSE", err |-> <<>>]
      [] TIMERCLOCK = 4 -> [clock |-> "CLOCK_MONOTONIC_RAW", err |-> <<>>]
      [] TIMERCLOCK = 5 -> [clock |-> "CLOCK_BOOTTIME", err |-> <<>>]
      [] TIMERCLOCK = 6 -> [clock |-> "CLOCK_PROCESS_CPUTIME_ID", err |-> <<>>]
      [] TIMERCLOCK = 7 -> [clock |-> "CLOCK_THREAD_CPUTIME_ID", err |-> <<>>]
      [] OTHER -> [clock |-> "CLOCK_REALTIME", err |-> ERROR(InvalidTimerclockMsg)]

\* timer.h: unit() interprets TIMERUNIT.
timer_h_unit ==
    CASE TIMERUNIT = 0 -> [str |-> "s", err |-> <<>>]
      [] TIMERUNIT = 1 -> [str |-> "ms", err |-> <<>>]
      [] TIMERUNIT = 2 -> [str |-> "us", err |-> <<>>]
      [] TIMERUNIT = 3 -> [str |-> "ns", err |-> <<>>]
      [] OTHER -> [str |-> "s", err |-> ERROR(InvalidTimeunitMsg)]

\* timer.h: elapsed_interval(tmp) converts in the unit TIMERUNIT.
timer_h_elapsed_interval(tmp) ==
    LET diff == diff_timespec(tmp.stop, tmp.start)
        seconds == DecAdd(DecInt(diff.tv_sec), NANO_TO_SEC(diff.tv_nsec))
    IN CASE TIMERUNIT = 0 -> [time |-> seconds, err |-> <<>>]
         [] TIMERUNIT = 1 ->
              [time |-> DecAdd(SEC_TO_MSEC(diff.tv_sec), NANO_TO_MSEC(diff.tv_nsec)),
               err |-> <<>>]
         [] TIMERUNIT = 2 ->
              [time |-> DecAdd(SEC_TO_MCSEC(diff.tv_sec), NANO_TO_MCSEC(diff.tv_nsec)),
               err |-> <<>>]
         [] TIMERUNIT = 3 ->
              [time |-> DecAdd(SEC_TO_NSEC(diff.tv_sec), DecInt(diff.tv_nsec)),
               err |-> <<>>]
         [] OTHER -> [time |-> seconds, err |-> ERROR(InvalidTimeunitMsg)]

\* The calls of timer.h's elapsed_interval, on measured intervals.
HeaderCalls ==
    { [fn |-> "timer.h", start |-> start, stop |-> stop] :
        start \in Timestamps, stop \in Timestamps }

\* The calls of diff_timespec on fields that hold any value.
AnyCalls ==
    { [fn |-> "diff_timespec, any tv_nsec", end |-> pair[1], begin |-> pair[2]] :
        pair \in {q \in AnyTimestamps \X AnyTimestamps : IntProductDefined(q[1], q[2])} }

Calls ==
    { [fn |-> "diff_timespec", end |-> end, begin |-> begin] :
        end \in Timestamps, begin \in Timestamps }
    \cup { [fn |-> "set_clock", ck |-> ck] : ck \in ClockValues }
    \cup { [fn |-> "print_unit", unit |-> unit] : unit \in UnitValues }
    \cup { [fn |-> "error_num", status |-> status] : status \in -3..1 }

PureInit ==
    /\ monoNow = 0
    /\ last = [op |-> "none"]
    /\ stderr = <<>>
    /\ stdout = <<>>
    /\ result = <<>>
    /\ \/ /\ call \in Calls \cup HeaderCalls \cup AnyCalls
          /\ have_boottime \in BOOLEAN
          /\ ivl = <<>>
          /\ sampled = <<>>
       \/ /\ call = NoCall
          /\ have_boottime = TRUE
          /\ \E tmp \in Intervals : ivl = ("a" :> tmp)
          /\ sampled = ("a" :> [phase |-> "Created", start |-> NotSampled,
                                stop |-> NotSampled])

\* The call returns value.
Return(value) ==
    /\ result = <<>>
    /\ result' = <<value>>
    /\ UNCHANGED <<have_boottime, ivl, monoNow, sampled, last, stderr, stdout, call>>

DiffTimespecCall ==
    /\ call.fn = "diff_timespec"
    /\ Return(diff_timespec(call.end, call.begin))

SetClockCall ==
    /\ call.fn = "set_clock"
    /\ Return(set_clock(call.ck, have_boottime))

PrintUnitCall ==
    /\ call.fn = "print_unit"
    /\ Return(print_unit(call.unit))

ErrorNumCall ==
    /\ call.fn = "error_num"
    /\ Return(error_num(call.status))

\* A program built against timer.h reads an interval and labels the value.
HeaderElapsedCall ==
    /\ call.fn = "timer.h"
    /\ Return([time |-> timer_h_elapsed_interval(call).time,
               unit |-> timer_h_unit.str,
               clock |-> timer_h_set_clock.clock,
               err |-> timer_h_elapsed_interval(call).err])

DiffTimespecAnyCall ==
    /\ call.fn = "diff_timespec, any tv_nsec"
    /\ Return(diff_timespec(call.end, call.begin))

PureNext ==
    \/ DiffTimespecCall
    \/ HeaderElapsedCall
    \/ DiffTimespecAnyCall
    \/ \E ut \in UnitValues : Elapsed("a", ut)
    \/ SetClockCall
    \/ PrintUnitCall
    \/ ErrorNumCall

PureSpec == PureInit /\ [][PureNext]_vars

\* The harness has made its call.
Returned(fn) == call.fn = fn /\ Len(result) = 1

\* The last call was elapsed_interval(tmp, ut), and tmp is as it left it.
ElapsedDone == last.op = "elapsed_interval"

(***************************************************************************)
(* Reference notions the properties are stated with.                       *)
(***************************************************************************)
\* The four defined units.
DefinedUnits == {s, ms, us, ns}

\* a + d for a timestamp a and a normalised difference d.
TsAdd(a, d) ==
    LET nsec == a.tv_nsec + d.tv_nsec
    IN IF nsec >= NSEC_PER_SEC
       THEN Timespec(a.tv_sec + d.tv_sec + 1, nsec - NSEC_PER_SEC)
       ELSE Timespec(a.tv_sec + d.tv_sec, nsec)

\* a <= b for conforming timestamps.
TsLe(a, b) ==
    a.tv_sec < b.tv_sec \/ (a.tv_sec = b.tv_sec /\ a.tv_nsec <= b.tv_nsec)

\* The true difference end - begin of conforming timestamps, normalised.
TrueDiff(end, begin) ==
    IF end.tv_nsec >= begin.tv_nsec
    THEN Timespec(end.tv_sec - begin.tv_sec, end.tv_nsec - begin.tv_nsec)
    ELSE Timespec(end.tv_sec - begin.tv_sec - 1,
                  end.tv_nsec - begin.tv_nsec + NSEC_PER_SEC)

\* The number of nanoseconds of a normalised difference, as an exact value.
Nanos(d) == Dec(d.tv_sec, d.tv_nsec, 0)

\* How many nanoseconds one unit is.
NanosPerUnit(unit) ==
    CASE unit = ms -> 1000000
      [] unit = us -> 1000
      [] unit = ns -> 1
      [] OTHER -> 1000000000

\* The duration d expressed in unit (in seconds for a unit out of range).
InUnit(d, unit) == DecDiv(Nanos(d), NanosPerUnit(unit))

DecNonNeg(x) == x.g >= 0

ValidClocks == {rt, rtc, mono, monoc, monor, monob, cpup, cput}

\* The system clock each clock source names.
ClockOf ==
    (rt :> "CLOCK_REALTIME") @@ (rtc :> "CLOCK_REALTIME_COARSE")
    @@ (mono :> "CLOCK_MONOTONIC") @@ (monoc :> "CLOCK_MONOTONIC_COARSE")
    @@ (monor :> "CLOCK_MONOTONIC_RAW") @@ (monob :> "CLOCK_BOOTTIME")
    @@ (cpup :> "CLOCK_PROCESS_CPUTIME_ID") @@ (cput :> "CLOCK_THREAD_CPUTIME_ID")

\* The abbreviation of each defined unit.
AbbrevOf == (s :> "s") @@ (ms :> "ms") @@ (us :> "us") @@ (ns :> "ns")

(***************************************************************************)
(* C1.  For conforming timestamps begin and end, diff_timespec(end, begin) *)
(* returns (sec, nsec) with 0 <= nsec < 1_000_000_000 that is the true     *)
(* difference (begin plus the result is end); sec >= 0 when end >= begin,  *)
(* and sec < 0 (the sign is in sec alone) when end < begin.                *)
(***************************************************************************)
C1_DiffIsTrueDifference ==
    Returned("diff_timespec") =>
        LET r == result[1]
        IN /\ 0 <= r.tv_nsec /\ r.tv_nsec < NSEC_PER_SEC
           /\ TsAdd(call.begin, r) = call.end
           /\ TsLe(call.begin, call.end) => r.tv_sec >= 0
           /\ ~TsLe(call.begin, call.end) => r.tv_sec < 0

\* The borrow of the spec's example: {1, 0} - {0, 400_000_000} = {0, 600_000_000}.
C1_Witness ==
    /\ Returned("diff_timespec")
    /\ call.end = Timespec(1, 0)
    /\ call.begin = Timespec(0, 400000000)
    /\ result[1] = Timespec(0, 600000000)

(***************************************************************************)
(* C2.  On a monotonic clock, once an interval's operations end with a     *)
(* successful start followed by a successful stop, elapsed_interval        *)
(* returns, in every unit, a value >= 0 that is the clock's advance from   *)
(* the start sample to the stop sample.                                    *)
(***************************************************************************)
C2_ElapsedNonNegative ==
    \A p \in Allocated :
        (/\ sampled[p].phase = "Stopped"
         /\ IsMonotonic(set_clock(ivl[p].clock, have_boottime).clock))
        => \A ut \in UnitValues :
              LET e == elapsed_interval(ivl[p], ut).time
                  advance == TrueDiff(sampled[p].stop, sampled[p].start)
              IN /\ DecNonNeg(e)
                 /\ TsLe(sampled[p].start, sampled[p].stop)
                 /\ e = InUnit(advance, SelectedUnit(ivl[p], ut))

\* Started at 0.5 s, stopped at 1.0 s: half a second, through the borrow.
C2_Witness ==
    /\ last.op = "elapsed_interval"
    /\ last.p = "a"
    /\ sampled["a"].phase = "Stopped"
    /\ sampled["a"].start = Timespec(0, 500000000)
    /\ sampled["a"].stop = Timespec(1, 0)
    /\ last.ut = none
    /\ last.ret = Dec(0, 0, 500000000)

(***************************************************************************)
(* C3.  elapsed_interval(interval, ut) converts the difference in unit ut  *)
(* when ut is one of the four defined units, and in the interval's own     *)
(* configured unit for every other ut (none, -1, any value out of range);  *)
(* every call returns a value and leaves the interval as it was.           *)
(***************************************************************************)
C3_OverrideOrConfigured ==
    [][last'.op = "elapsed_interval" =>
          LET tmp == ivl[last'.p]
              d == TrueDiff(tmp.stop, tmp.start)
          IN /\ last'.ut \in DefinedUnits => last'.ret = InUnit(d, last'.ut)
             /\ last'.ut \notin DefinedUnits => last'.ret = InUnit(d, tmp.unit)
             /\ ivl' = ivl
    ]_vars

\* -1 on an interval in milliseconds: 1.5 s is 1500 ms.
C3_Witness ==
    /\ ElapsedDone
    /\ last.ut = -1
    /\ ivl[last.p].unit = ms
    /\ ivl[last.p].start = Timespec(0, 0)
    /\ ivl[last.p].stop = Timespec(1, 500000000)
    /\ last.ret = Dec(0, 1500, 0)

(***************************************************************************)
(* C4.  As stated: whenever elapsed_interval is called with a unit         *)
(* override outside the defined unit enumeration, a diagnostic is emitted. *)
(***************************************************************************)
C4_InvalidOverrideDiagnosed ==
    (ElapsedDone /\ last.ut \notin DefinedUnits /\ last.ut # none)
    => stderr # <<>>

(***************************************************************************)
(* C4, amended.  Called with a unit override outside the defined units,    *)
(* elapsed_interval falls back to the interval's configured unit and emits *)
(* a diagnostic exactly when that configured unit is itself not a defined  *)
(* unit; the override alone is never diagnosed.                            *)
(***************************************************************************)
C4_DiagnosticOnlyForConfiguredUnit ==
    (ElapsedDone /\ last.ut \notin DefinedUnits)
    => LET tmp == ivl[last.p]
       IN /\ last.ret = InUnit(TrueDiff(tmp.stop, tmp.start), tmp.unit)
          /\ tmp.unit \in DefinedUnits => stderr = <<>>
          /\ tmp.unit \notin DefinedUnits => stderr = <<InvalidUnitMsg>>

\* An override out of range on an interval in seconds: no diagnostic.
C4_Witness ==
    /\ ElapsedDone
    /\ last.ut = 5
    /\ ivl[last.p].unit = s
    /\ ivl[last.p].start = Timespec(0, 0)
    /\ ivl[last.p].stop = Timespec(1, 500000000)
    /\ last.ret = Dec(0, 1, 500000000)
    /\ stderr = <<>>

(***************************************************************************)
(* C5.  If the clock read fails during start (stop), the call returns a    *)
(* status other than OK and the interval's start (stop) timestamp, as      *)
(* every other field, keeps the value it had before the call; the clock is *)
(* not read a second time.                                                 *)
(***************************************************************************)
C5_FailedReadKeepsTimestamp ==
    [][(last'.op \in {"start", "stop"} /\ last'.read # 0) =>
          /\ last'.ret # OK
          /\ ivl' = ivl
          /\ monoNow' = monoNow
    ]_vars

\* start fails on an interval that was started at 0.5 s and stopped at 1.0 s.
C5_Witness ==
    /\ last.op = "start"
    /\ last.read = -1
    /\ last.ret # OK
    /\ sampled[last.p].phase = "Stopped"
    /\ ivl[last.p].start = Timespec(0, 500000000)
    /\ ivl[last.p].stop = Timespec(1, 0)

(***************************************************************************)
(* C6.  The status start / stop return when the clock read fails is        *)
(* CLOCK_FAILED, distinct from create_interval's NOT_ALLOCATED, so that    *)
(* error_num maps it to the clock message, never to the allocation one.    *)
(***************************************************************************)
C6_ClockFailureIsClockFailed ==
    (last.op \in {"start", "stop"} /\ last.read # 0)
    => /\ last.ret = CLOCK_FAILED
       /\ last.ret # NOT_ALLOCATED
       /\ error_num(last.ret) = "clock not available!"

(***************************************************************************)
(* C7.  After a successful create_interval(name, clock, unit) the interval *)
(* holds the given name, clock and unit and both timestamps are zero, so   *)
(* that a stop without a start yields the stop sample against a zero       *)
(* start.                                                                  *)
(***************************************************************************)
C7_CreatedZeroed ==
    /\ (last.op = "create_interval" /\ last.ret = OK)
       => ivl[last.p] = [name |-> last.name, clock |-> last.clock, unit |-> last.unit,
                         start |-> Timespec(0, 0), stop |-> Timespec(0, 0)]
    /\ \A p \in Allocated :
          (sampled[p].phase = "Created" /\ sampled[p].stop # NotSampled)
          => elapsed_interval(ivl[p], ns).time = Nanos(sampled[p].stop)

(***************************************************************************)
(* C8.  In every step: name, clock and unit of every interval stay as      *)
(* created; start on interval i changes at most i.start (a successful one  *)
(* overwrites it with the new sample, also on a restart), stop on i at     *)
(* most i.stop; create_interval, elapsed_interval, print_results and       *)
(* print_results_csv change no existing interval.                          *)
(***************************************************************************)
C8_Frame ==
    [][/\ \A q \in Allocated :
            /\ q \in DOMAIN ivl'
            /\ ivl'[q].name = ivl[q].name
            /\ ivl'[q].clock = ivl[q].clock
            /\ ivl'[q].unit = ivl[q].unit
       /\ last'.op = "start" =>
            /\ \A q \in Allocated \ {last'.p} : ivl'[q] = ivl[q]
            /\ ivl'[last'.p].stop = ivl[last'.p].stop
            /\ last'.ret = OK => ivl'[last'.p].start = sampled'[last'.p].start
       /\ last'.op = "stop" =>
            /\ \A q \in Allocated \ {last'.p} : ivl'[q] = ivl[q]
            /\ ivl'[last'.p].start = ivl[last'.p].start
            /\ last'.ret = OK => ivl'[last'.p].stop = sampled'[last'.p].stop
       /\ last'.op \in {"elapsed_interval", "print_results", "print_results_csv"} =>
            ivl' = ivl
       /\ last'.op = "create_interval" =>
            \A q \in Allocated : ivl'[q] = ivl[q]
    ]_vars

\* A restart of a, with b allocated and stopped: a's start is overwritten
\* with the sample of 1.0 s, after its stop at 0.5 s.
C8_Witness ==
    /\ Allocated = {"a", "b"}
    /\ last.op = "start"
    /\ last.p = "a"
    /\ last.ret = OK
    /\ sampled["a"].phase = "Restarted"
    /\ ivl["a"].start = Timespec(1, 0)
    /\ ivl["a"].stop = Timespec(0, 500000000)
    /\ sampled["b"].phase = "Stopped"

(***************************************************************************)
(* C9.  As stated: an invalid or unsupported clock source makes set_clock  *)
(* select the realtime clock with a diagnostic; an invalid configured unit *)
(* makes elapsed_interval convert in seconds and print_unit return "s",    *)
(* each with a diagnostic; every valid value maps to its own clock or      *)
(* abbreviation without a diagnostic.                                      *)
(***************************************************************************)
ClockAndAbbreviationRule ==
    /\ Returned("set_clock") =>
          result[1] = IF call.ck \in ValidClocks /\ (call.ck = monob => have_boottime)
                      THEN [clock |-> ClockOf[call.ck], err |-> <<>>]
                      ELSE [clock |-> "CLOCK_REALTIME", err |-> <<InvalidClockMsg>>]
    /\ Returned("print_unit") =>
          result[1] = IF call.unit \in DefinedUnits
                      THEN [str |-> AbbrevOf[call.unit], err |-> <<>>]
                      ELSE [str |-> "s", err |-> <<InvalidUnitMsg>>]

C9_InvalidValuesDefaulted ==
    /\ ClockAndAbbreviationRule
    /\ (ElapsedDone /\ ivl[last.p].unit \notin DefinedUnits)
       => /\ last.ret = InUnit(TrueDiff(ivl[last.p].stop, ivl[last.p].start), s)
          /\ stderr = <<InvalidUnitMsg>>

(***************************************************************************)
(* C9, amended.  The same, except that an invalid configured unit makes    *)
(* elapsed_interval convert in seconds with a diagnostic only when the     *)
(* call gives no defined unit as override; with a defined unit as override *)
(* it converts in that unit, without a diagnostic.                         *)
(***************************************************************************)
C9_InvalidValuesDefaultedUnlessOverridden ==
    /\ ClockAndAbbreviationRule
    /\ ElapsedDone =>
          LET tmp == ivl[last.p]
              d == TrueDiff(tmp.stop, tmp.start)
          IN IF last.ut \notin DefinedUnits /\ tmp.unit \notin DefinedUnits
             THEN last.ret = InUnit(d, s) /\ stderr = <<InvalidUnitMsg>>
             ELSE stderr = <<>>

\* No override on an interval whose unit is 5: 1.5 s in seconds, diagnosed.
C9_Witness ==
    /\ ElapsedDone
    /\ last.ut = none
    /\ ivl[last.p].unit = 5
    /\ ivl[last.p].start = Timespec(0, 0)
    /\ ivl[last.p].stop = Timespec(1, 500000000)
    /\ last.ret = Dec(0, 1, 500000000)
    /\ stderr = <<InvalidUnitMsg>>

(***************************************************************************)
(* C10.  For a difference (sec, nsec), elapsed_interval returns the same   *)
(* duration scaled to the selected unit: the value times the nanoseconds   *)
(* of that unit (10^9 for s, 10^6 for ms, 10^3 for us, 1 for ns) is        *)
(* sec * 10^9 + nsec; a difference of exactly 1.5 s gives 1500 in ms,      *)
(* 1500000 in us and 1500000000 in ns.                                     *)
(***************************************************************************)
C10_SameDurationInEveryUnit ==
    ElapsedDone =>
        LET tmp == ivl[last.p]
            diff == diff_timespec(tmp.stop, tmp.start)
            unit == SelectedUnit(tmp, last.ut)
        IN /\ DecMul(last.ret, NanosPerUnit(unit)) = Nanos(diff)
           /\ diff = Timespec(1, 500000000) =>
                 /\ unit = s => last.ret = Dec(0, 1, 500000000)
                 /\ unit = ms => last.ret = Dec(0, 1500, 0)
                 /\ unit = us => last.ret = Dec(0, 1500000, 0)
                 /\ unit = ns => last.ret = Dec(1, 500000000, 0)

\* 1.5 s in microseconds, asked for on an interval in seconds: 1500000.
C10_Witness ==
    /\ ElapsedDone
    /\ last.ut = us
    /\ ivl[last.p].unit = s
    /\ ivl[last.p].start = Timespec(0, 0)
    /\ ivl[last.p].stop = Timespec(1, 500000000)
    /\ last.ret = Dec(0, 1500000, 0)

(***************************************************************************)
(* C11.  print_results_csv(comment, n, i1..in), n >= 1, writes exactly two *)
(* lines: the header is the comment marker, a space and one                *)
(* "<name> (<unit abbreviation>)" entry per interval; the data line is one *)
(* elapsed value per interval, to three decimals, in that interval's own   *)
(* configured unit.  Both lines follow the argument order, with ", "       *)
(* between consecutive entries only: n - 1 separators per line, none after *)
(* the last entry.                                                         *)
(***************************************************************************)
\* The entries with sep between consecutive ones.
RECURSIVE Joined(_, _)
Joined(entries, sep) ==
    IF Len(entries) = 0 THEN <<>>
    ELSE IF Len(entries) = 1 THEN entries[1]
    ELSE entries[1] \o sep \o Joined(Tail(entries), sep)

\* How many tokens of out are the text str.
CountText(out, str) == Cardinality({i \in 1..Len(out) : out[i] = Text(str)})

C11_CsvTwoLines ==
    last.op = "print_results_csv" =>
        LET args == last.args
            n == Len(args)
            entry(i) == << Text(ivl[args[i]].name), Text(" ("),
                           Text(AbbrevOf[ivl[args[i]].unit]), Text(")") >>
            value(i) == << Num3(InUnit(TrueDiff(ivl[args[i]].stop, ivl[args[i]].start),
                                       ivl[args[i]].unit)) >>
        IN /\ n >= 1
           /\ stdout = << Text(last.comment), Text(" ") >>
                        \o Joined([i \in 1..n |-> entry(i)], << Text(", ") >>)
                        \o << Text("\n") >>
                        \o Joined([i \in 1..n |-> value(i)], << Text(", ") >>)
                        \o << Text("\n") >>
           /\ CountText(stdout, "\n") = 2
           /\ CountText(stdout, ", ") = 2 * (n - 1)
           /\ stdout[Len(stdout)] = Text("\n")
           /\ stdout[Len(stdout) - 1] # Text(", ")

\* Two measured intervals, b (1.0 s in ms) listed before a (0.5 s in s):
\* "# Test 2 (ms), Test 1 (s)" and "1000.000, 0.500".
C11_Witness ==
    /\ last.op = "print_results_csv"
    /\ last.args = <<"b", "a">>
    /\ sampled["a"].phase = "Stopped" /\ sampled["b"].phase = "Stopped"
    /\ stdout = << Text("#"), Text(" "),
                   Text("Test 2"), Text(" ("), Text("ms"), Text(")"), Text(", "),
                   Text("Test 1"), Text(" ("), Text("s"), Text(")"), Text("\n"),
                   Num3(Dec(0, 1000, 0)), Text(", "), Num3(Dec(0, 0, 500000000)),
                   Text("\n") >>

(***************************************************************************)
(* C12.  A build that defines none of TIMERVER, TIMERUNIT and TIMERCLOCK   *)
(* gets the documented defaults: verbosity 1 (errors only), unit 0         *)
(* (seconds) and clock 2 (monotonic), so that an elapsed value is the      *)
(* duration in seconds and its label is "s".                               *)
(***************************************************************************)
C12_DocumentedDefaults ==
    Returned("timer.h") =>
        /\ TIMERVER = 1
        /\ TIMERUNIT = s
        /\ TIMERCLOCK = mono
        /\ result[1].clock = "CLOCK_MONOTONIC"
        /\ result[1].unit = "s"
        /\ result[1].time = InUnit(TrueDiff(call.stop, call.start), s)

(***************************************************************************)
(* C13.  For every pair of inputs, those included whose tv_nsec fields     *)
(* differ by a whole second or more in either direction (an exact multiple *)
(* of 1_000_000_000 in particular), diff_timespec returns a tv_nsec in     *)
(* [0, 1_000_000_000).                                                     *)
(***************************************************************************)
C13_NsecAlwaysNormalised ==
    Returned("diff_timespec, any tv_nsec") =>
        /\ 0 <= result[1].tv_nsec
        /\ result[1].tv_nsec < NSEC_PER_SEC

====
